---- MODULE Spec2Model ----
\* A model of scripts/run_colabfold.py: the generator of the two SLURM
\* submission scripts (colabfold_search, colabfold_batch).
\*
\* Text is modelled at character level: a Python str is a sequence of
\* one-character strings, a list of str is a sequence of such sequences.
\* An Optional[str] is None (the empty tuple) or Some(s) (a one-element tuple).
EXTENDS Integers, Naturals, Sequences, FiniteSets, TLC

\* ------------------------------------------------------------------ bounds
\* --ncpus ranges over 1..MaxCpus in main's runs.
MaxCpus == 4
\* num_cpus of the direct calls of _generate_sbatch_script ranges over 1..MaxNumCpus.
MaxNumCpus == 8
\* memory_gbs of the direct calls ranges over 1..MaxMemGbs.
MaxMemGbs == 10
\* num_gpus of the direct calls ranges over 0..MaxGpus.
MaxGpus == 2
\* Tokens of the direct calls' argument lists have at most MaxTokLen characters,
\* and the lists at most MaxToks tokens after the two marker tokens.
MaxTokLen == 3
MaxToks == 3

\* ------------------------------------------------------------------ text
None == <<>>
Some(s) == <<s>>

\* The characters of the model in code-point order: newline (10), then 32..126
\* without the backquote (96), which no text of the model contains.
Chars ==
  <<"\n"," ","!","\"","#","$","%","&","'","(",")","*","+",",","-",".","/",
    "0","1","2","3","4","5","6","7","8","9",":",";","<","=",">","?","@",
    "A","B","C","D","E","F","G","H","I","J","K","L","M","N","O","P","Q","R","S",
    "T","U","V","W","X","Y","Z","[","\\","]","^","_",
    "a","b","c","d","e","f","g","h","i","j","k","l","m","n","o","p","q","r","s",
    "t","u","v","w","x","y","z","{","|","}","~">>

CharSet == {Chars[i] : i \in 1..Len(Chars)}

\* The rank of a character in code-point order (what str comparison uses).
OrdOf == [c \in CharSet |-> CHOOSE i \in 1..Len(Chars) : Chars[i] = c]

Ord(c) == OrdOf[c]

Digits == <<"0","1","2","3","4","5","6","7","8","9">>

\* str(n) for an int n >= 0.
RECURSIVE IntStr(_)
IntStr(n) ==
  IF n < 10 THEN <<Digits[n + 1]>>
  ELSE IntStr(n \div 10) \o <<Digits[(n % 10) + 1]>>

\* sep.join(parts)
RECURSIVE Join(_, _)
Join(sep, parts) ==
  IF parts = <<>> THEN <<>>
  ELSE IF Len(parts) = 1 THEN parts[1]
  ELSE parts[1] \o sep \o Join(sep, Tail(parts))

\* a < b for two str (lexicographic by code point, a proper prefix is smaller).
RECURSIVE StrLess(_, _)
StrLess(a, b) ==
  IF b = <<>> THEN FALSE
  ELSE IF a = <<>> THEN TRUE
  ELSE IF Ord(a[1]) < Ord(b[1]) THEN TRUE
  ELSE IF Ord(a[1]) > Ord(b[1]) THEN FALSE
  ELSE StrLess(Tail(a), Tail(b))

\* Insert line x into the sorted list s, after the elements not greater than it.
RECURSIVE InsertSorted(_, _)
InsertSorted(x, s) ==
  IF s = <<>> THEN <<x>>
  ELSE IF StrLess(x, s[1]) THEN <<x>> \o s
  ELSE <<s[1]>> \o InsertSorted(x, Tail(s))

RECURSIVE SortedFrom(_, _)
SortedFrom(s, i) ==
  IF i > Len(s) THEN <<>>
  ELSE InsertSorted(s[i], SortedFrom(s, i + 1))

\* sorted(lines): a stable ascending sort of a list of str.
sorted(lines) == SortedFrom(lines, 1)

\* ------------------------------------------------------------------ shlex
\* shlex._find_unsafe is the search of the regular expression [^\w@%+=:,./-] (ASCII)
Letters ==
  {"a","b","c","d","e","f","g","h","i","j","k","l","m","n","o","p","q","r","s",
   "t","u","v","w","x","y","z",
   "A","B","C","D","E","F","G","H","I","J","K","L","M","N","O","P","Q","R","S",
   "T","U","V","W","X","Y","Z"}

SafeChars ==
  Letters \cup {Digits[i] : i \in 1..10} \cup
  {"_", "@", "%", "+", "=", ":", ",", ".", "/", "-"}

find_unsafe(s) == \E i \in 1..Len(s) : s[i] \notin SafeChars

\* s.replace(single quote, single quote + double-quoted single quote + single quote)
RECURSIVE ReplaceQuote(_)
ReplaceQuote(s) ==
  IF s = <<>> THEN <<>>
  ELSE (IF s[1] = "'" THEN <<"'","\"","'","\"","'">> ELSE <<s[1]>>) \o ReplaceQuote(Tail(s))

\* quote without the replacement of the single quotes inside s
quote_unescaped(s) ==
  IF s = <<>> THEN <<"'","'">>
  ELSE IF ~find_unsafe(s) THEN s
  ELSE <<"'">> \o s \o <<"'">>

\* shlex.quote(s)
quote(s) ==
  IF s = <<>> THEN <<"'","'">>
  ELSE IF ~find_unsafe(s) THEN s
  ELSE <<"'">> \o ReplaceQuote(s) \o <<"'">>

\* shlex.join(split_command)
shlex_join(toks) == Join(<<" ">>, [i \in 1..Len(toks) |-> quote(toks[i])])

\* ------------------------------------------------------------------ numbers
\* A float with at most two decimals is modelled by its value in hundredths.

\* n / d rounded to the nearest integer, ties to even (n >= 0, d > 0).
RoundHalfEven(n, d) ==
  LET q == n \div d
      r == n % d
  IN IF 2 * r < d THEN q
     ELSE IF 2 * r > d THEN q + 1
     ELSE IF q % 2 = 0 THEN q ELSE q + 1

\* round(memory_gbs / num_cpus, 2) in hundredths. A tie needs 8 | num_cpus, and
\* for num_cpus < 40 the quotient of a tie is a binary fraction, held exactly by
\* a double, which round() takes to the even neighbour.
round2(memory_gbs, num_cpus) == RoundHalfEven(100 * memory_gbs, num_cpus)

\* The per-cpu memory with min in the place of max
mem_per_cpu_min(memory_gbs, num_cpus) ==
  LET r == round2(memory_gbs, num_cpus)
  IN IF r < 100 THEN r ELSE 100

\* mem_per_cpu = max(1.0, round(memory_gbs / num_cpus, 2)), in hundredths.
mem_per_cpu_of(memory_gbs, num_cpus) ==
  LET r == round2(memory_gbs, num_cpus)
  IN IF r > 100 THEN r ELSE 100

\* The values x.y5 in [1, 10) whose double lies above the decimal value: the
\* one-decimal rounding of the format takes them up. (x.25 and x.75 are exact
\* and go to the even neighbour; the doubles of the others lie below.)
DoubleAbove ==
  {105, 135, 155, 185, 235, 245, 285, 295, 335, 345, 385, 395, 415, 445, 465,
   495, 515, 545, 565, 595, 615, 645, 665, 695, 715, 745, 765, 795, 805, 815,
   855, 865, 905, 915, 955, 965}

\* The value h (hundredths, 100 <= h < 1000) rounded to tenths as the
\* correctly rounded format of its double does.
RoundTenths(h) ==
  LET t == h \div 10
      r == h % 10
  IN IF r < 5 THEN t
     ELSE IF r > 5 THEN t + 1
     ELSE IF h % 25 = 0 THEN (IF t % 2 = 0 THEN t ELSE t + 1)
     ELSE IF h \in DoubleAbove THEN t + 1 ELSE t

RECURSIVE Pow10(_)
Pow10(k) == IF k = 0 THEN 1 ELSE 10 * Pow10(k - 1)

\* The decimal exponent of v = h / 100 for h >= 100: 10^X <= v < 10^(X+1).
RECURSIVE Exp10(_)
Exp10(h) == IF h < 1000 THEN 0 ELSE 1 + Exp10(h \div 10)

\* The two significant digits md (10..99) and the exponent of v = h / 100.
TwoDigits(h) ==
  LET X == Exp10(h)
      m == IF X = 0 THEN RoundTenths(h) ELSE RoundHalfEven(h, Pow10(X + 1))
  IN IF m = 100 THEN [md |-> 10, exp |-> X + 1] ELSE [md |-> m, exp |-> X]

\* The mantissa d[.d] with a trailing zero stripped.
Mantissa(md) ==
  IF md % 10 = 0 THEN IntStr(md \div 10)
  ELSE IntStr(md \div 10) \o <<".">> \o IntStr(md % 10)

\* format(v, ".2g") for v = h / 100 >= 1: two significant digits, fixed
\* notation while the exponent is below the precision, else d.de+XX.
FormatG2(h) ==
  LET d == TwoDigits(h)
  IN IF d.exp = 0 THEN Mantissa(d.md)
     ELSE IF d.exp = 1 THEN IntStr(d.md)
     ELSE Mantissa(d.md) \o <<"e","+">> \o
          (IF d.exp < 10 THEN <<"0">> ELSE <<>>) \o IntStr(d.exp)

\* ------------------------------------------------------------------ paths
\* A pathlib.Path is modelled by its str(); the paths of the model are
\* normalised, have no "." or ".." component and cross no symbolic link.

\* The working directory of the process.
Cwd == <<"/","w">>

\* Path.resolve(): an absolute path is kept, a relative one is taken from Cwd.
resolve(p) == IF p[1] = "/" THEN p ELSE Cwd \o <<"/">> \o p

\* Path.name: the final component.
RECURSIVE name(_)
name(p) ==
  IF \E i \in 1..Len(p) : p[i] = "/"
  THEN name(Tail(p))
  ELSE p

\* parent / child
PathJoin(parent, child) == parent \o <<"/">> \o child

\* ------------------------------------------------------------------ builders
\* _generate_colabfold_search_args: [args, out]
generate_colabfold_search_args(img, cache_dir, query_file, output_folder, ncpus) ==
  LET cache_dir_src == resolve(cache_dir)
      cache_dir_dest == <<"/","t","m","p","/","c","a","c","h","e">>
      query_file_src == resolve(query_file)
      query_file_dest == PathJoin(<<"/","i","n","p","u","t">>, name(query_file_src))
      output_folder_src == resolve(output_folder)
      output_folder_dest == <<"/","o","u","t","p","u","t">>
      colabfold_search_output_folder == PathJoin(output_folder_dest, <<"s","e","a","r","c","h">>)
  IN [args |->
        << <<"a","p","p","t","a","i","n","e","r">>,
           <<"r","u","n">>,
           <<"-","-","b","i","n","d","=">> \o cache_dir_src \o <<":">> \o cache_dir_dest,
           <<"-","-","b","i","n","d","=">> \o query_file_src \o <<":">> \o query_file_dest \o <<":","r","o">>,
           <<"-","-","b","i","n","d","=">> \o output_folder_src \o <<":">> \o output_folder_dest,
           img,
           <<"-","-","e","n","v","=","M","M","S","E","Q","S","_","I","G","N","O","R","E","_","I","N","D","E","X","=","1">>,
           <<"c","o","l","a","b","f","o","l","d","_","s","e","a","r","c","h">>,
           <<"-","-","t","h","r","e","a","d","s","=">> \o IntStr(ncpus),
           query_file_dest,
           cache_dir_dest,
           colabfold_search_output_folder >>,
      out |-> colabfold_search_output_folder]

\* _generate_colabfold_batch_args: [args, out]
generate_colabfold_batch_args(img, cache_dir, input_folder, output_folder) ==
  LET cache_dir_src == resolve(cache_dir)
      cache_dir_dest == <<"/","t","m","p","/","c","a","c","h","e">>
      input_folder_src == resolve(input_folder)
      input_folder_dest == <<"/","i","n","p","u","t">>
      output_folder_src == resolve(output_folder)
      output_folder_dest == <<"/","o","u","t","p","u","t">>
      colabfold_predict_output_folder == PathJoin(output_folder_dest, <<"p","r","e","d","i","c","t">>)
  IN [args |->
        << <<"a","p","p","t","a","i","n","e","r">>,
           <<"r","u","n">>,
           <<"-","-","b","i","n","d","=">> \o cache_dir_src \o <<":">> \o cache_dir_dest,
           <<"-","-","b","i","n","d","=">> \o input_folder_src \o <<":">> \o input_folder_dest,
           <<"-","-","b","i","n","d","=">> \o output_folder_src \o <<":">> \o output_folder_dest,
           img,
           <<"c","o","l","a","b","f","o","l","d","_","b","a","t","c","h">>,
           input_folder_dest,
           colabfold_predict_output_folder >>,
      out |-> colabfold_predict_output_folder]

\* ------------------------------------------------------------------ generator
\* The job name of the directive (job_name: None or Some(str)).
job_name_of(job_name) ==
  IF job_name = None THEN <<"c","o","l","a","b","f","o","l","d","_","s","e","a","r","c","h">>
  ELSE quote(job_name[1] \o <<"_","c","o","l","a","b","f","o","l","d","_","s","e","a","r","c","h">>)

\* The GPU partition only where the caller names no partition
partition_if_missing(partition, num_gpus) ==
  IF num_gpus > 0 /\ partition = None THEN Some(<<"a","c","c","e","l">>) ELSE partition

\* The partition after the GPU override (partition: None or Some(str)).
partition_of(partition, num_gpus) ==
  IF num_gpus > 0 THEN Some(<<"a","c","c","e","l">>) ELSE partition

\* The tokens of the command: the marker joined, then each other token quoted.
command_tokens(args) ==
  LET prefix == shlex_join(SubSeq(args, 1, 2))
      rest == SubSeq(args, 3, Len(args))
  IN <<prefix>> \o [i \in 1..Len(rest) |-> quote(rest[i])]

\* The separator of the command's tokens: space, backslash, newline, 4 spaces.
Continuation == <<" ","\\","\n"," "," "," "," ">>

\* The directive lines in the order of their construction.
sbatch_directives(num_cpus, memory_gbs, max_time, partition, job_name, num_gpus, account_code) ==
  << <<"#","S","B","A","T","C","H"," ","-","-","j","o","b","-","n","a","m","e","=">> \o job_name_of(job_name),
     <<"#","S","B","A","T","C","H"," ","-","-","a","c","c","o","u","n","t","=">> \o account_code,
     <<"#","S","B","A","T","C","H"," ","-","-","t","i","m","e","=">> \o quote(max_time),
     <<"#","S","B","A","T","C","H"," ","-","-","n","t","a","s","k","s","=","1">>,
     <<"#","S","B","A","T","C","H"," ","-","-","m","e","m","-","p","e","r","-","c","p","u","=">> \o FormatG2(mem_per_cpu_of(memory_gbs, num_cpus)) \o <<"G","B">>,
     <<"#","S","B","A","T","C","H"," ","-","-","c","p","u","s","-","p","e","r","-","t","a","s","k","=">> \o IntStr(num_cpus) >>
  \o (IF num_gpus > 0 THEN << <<"#","S","B","A","T","C","H"," ","-","-","g","p","u","s","=">> \o IntStr(num_gpus) >> ELSE <<>>)
  \o (IF partition_of(partition, num_gpus) # None
      THEN << <<"#","S","B","A","T","C","H"," ","-","-","p","a","r","t","i","t","i","o","n","=">> \o quote(partition_of(partition, num_gpus)[1]) >>
      ELSE <<>>)

\* The directive lines emitted in the order of their construction
emitted_unsorted(directives) == directives

\* The order in which the directive lines are emitted.
emitted_directives(directives) == sorted(directives)

\* The lines of the script, before they are joined.
script_lines(args, num_cpus, memory_gbs, max_time, partition, job_name, num_gpus, account_code) ==
  << <<"#","!","/","u","s","r","/","b","i","n","/","e","n","v"," ","b","a","s","h">>,
     <<"s","e","t"," ","-","e">>,
     <<"s","e","t"," ","-","u">>,
     <<"s","e","t"," ","-","o"," ","p","i","p","e","f","a","i","l">>,
     <<>> >>
  \o emitted_directives(sbatch_directives(num_cpus, memory_gbs, max_time, partition,
                                          job_name, num_gpus, account_code))
  \o << <<>>, Join(Continuation, command_tokens(args)) >>

\* _generate_sbatch_script, given the value of _get_account_code(). The two
\* assertions on the marker tokens are the caller's obligation (ArgsOk).
generate_sbatch_script(args, num_cpus, memory_gbs, max_time, partition, job_name, num_gpus, account_code) ==
  Join(<<"\n">>, script_lines(args, num_cpus, memory_gbs, max_time, partition,
                            job_name, num_gpus, account_code))

\* assert args[0] == "apptainer"; assert args[1] == "run"
ArgsOk(args) == Len(args) >= 2 /\ args[1] = <<"a","p","p","t","a","i","n","e","r">> /\ args[2] = <<"r","u","n">>

\* ------------------------------------------------------------------ state
VARIABLES
  pc,             \* the position of the run
  cli,            \* the parsed command line (vars(parse_args()))
  environ,        \* SLURM_PROJECT_ID: None or Some(str)
  account_cache,  \* the functools.cache of _get_account_code: None or Some(str)
  folder,         \* what the output-folder path is: "missing", "dir" or "file"
  files,          \* the regular files of the output folder: name -> content
  files0,         \* the files of the output folder when the run started
  search,         \* main's colabfold_search_args, colabfold_search_output_folder
  batch,          \* main's colabfold_batch_args, colabfold_batch_output_folder
  err,            \* the exception that ended the run, "none" if none
  call,           \* the arguments of a direct call of _generate_sbatch_script
  script          \* the value the direct call returned: None or Some(str)

vars == <<pc, cli, environ, account_cache, folder, files, files0, search, batch,
          err, call, script>>

\* The fixed filenames of the two scripts, and another file of the folder.
SearchScript == "run_colabfold_search.sh"
BatchScript == "run_colabfold_batch.sh"
OtherFile == "notes.txt"
FileNames == {SearchScript, BatchScript, OtherFile}

\* The content of a file that was there before the run.
OldText == <<"o","l","d">>

\* The inputs of the runs.
Images == {<<"i","m","g",".","s","i","f">>}
Queries == {<<"q",".","f","a","s","t","a">>, <<"/","d","a","t","a","/","q"," ","1",".","f","a","s","t","a">>}
Caches == {<<"/","c","a","c","h","e">>}
Outputs == {<<"/","o","u","t">>, <<"o","u","t">>}
JobNames == {None, Some(<<"f","o","l","d">>), Some(<<"m","y"," ","j","o","b">>)}
AccountCodes == {None, Some(<<"n","n","1","2","3","4","k">>)}

NoArgs == [args |-> <<>>, out |-> <<>>]
NoCall == [args |-> <<>>, num_cpus |-> 1, memory_gbs |-> 1, max_time |-> <<>>,
           partition |-> None, job_name |-> None, num_gpus |-> 0]

\* _get_account_code(): the cached value, else the quoted environment value,
\* which is then cached; None stands for the RuntimeError (which is not cached).
get_account_code(cache, env) ==
  IF cache # None THEN cache
  ELSE IF env = None THEN None
  ELSE Some(quote(env[1]))

\* The unlink of the search script alone
unlink_search_only(fs) == [n \in DOMAIN fs \ {SearchScript} |-> fs[n]]

\* path.unlink(missing_ok=True) of the two scripts
unlink_scripts(fs) == [n \in DOMAIN fs \ {SearchScript, BatchScript} |-> fs[n]]

\* path.open("w"): the file is created, or truncated if it is there
open_w(fs, n) == [m \in DOMAIN fs \cup {n} |-> IF m = n THEN <<>> ELSE fs[m]]

\* f.write(text) on the file opened by open_w, then the close of the with block
write(fs, n, text) == [fs EXCEPT ![n] = text]

\* A run of main: the command line, the environment and the output folder.
MainInit ==
  /\ pc = "start"
  /\ cli \in [img : Images, query : Queries, cache : Caches, out : Outputs,
              force : BOOLEAN, ncpus : 1..MaxCpus, job_name : JobNames]
  /\ environ \in AccountCodes
  /\ account_cache = None
  /\ folder \in {"missing", "dir", "file"}
  /\ files \in IF folder = "dir"
               THEN UNION {[D -> {OldText}] : D \in SUBSET FileNames}
               ELSE {[n \in {} |-> OldText]}
  /\ files0 = files
  /\ search = NoArgs
  /\ batch = NoArgs
  /\ err = "none"
  /\ call = NoCall
  /\ script = None

Raise(e) ==
  /\ pc' = "error"
  /\ err' = e

\* main, lines 234-247: the two argument lists, the second from the first's output.
BuildArgs ==
  /\ pc = "start"
  /\ search' = generate_colabfold_search_args(cli.img, cli.cache, cli.query,
                                              cli.out, cli.ncpus)
  /\ batch' = generate_colabfold_batch_args(cli.img, cli.cache, search'.out, cli.out)
  /\ pc' = "check"
  /\ UNCHANGED <<cli, environ, account_cache, folder, files, files0, err, call, script>>

\* The pre-flight check without the negation of _directory_is_empty
preflight_not_dropped(force, kind, fs) ==
  IF force \/ kind = "missing" THEN "none"
  ELSE IF kind = "file" THEN "NotADirectoryError"
  ELSE IF DOMAIN fs = {} THEN "RefuseNonEmpty"
  ELSE "none"

\* The exception of the pre-flight check, "none" if it accepts.
\* exists() is true of a file too, and iterdir() of a file raises.
preflight(force, kind, fs) ==
  IF force \/ kind = "missing" THEN "none"
  ELSE IF kind = "file" THEN "NotADirectoryError"
  ELSE IF DOMAIN fs # {} THEN "RefuseNonEmpty"
  ELSE "none"

\* main, lines 249-250
Preflight ==
  /\ pc = "check"
  /\ IF preflight(cli.force, folder, files) # "none"
     THEN Raise(preflight(cli.force, folder, files))
     ELSE pc' = "unlink" /\ err' = err
  /\ UNCHANGED <<cli, environ, account_cache, folder, files, files0, search, batch,
                 call, script>>

\* main, lines 252-256: under --force the two scripts are unlinked
\* (missing_ok covers a missing file or folder, not a parent that is a file).
Unlink ==
  /\ pc = "unlink"
  /\ IF cli.force /\ folder = "file"
     THEN Raise("NotADirectoryError") /\ files' = files
     ELSE /\ pc' = "open_search"
          /\ err' = err
          /\ files' = IF cli.force THEN unlink_scripts(files) ELSE files
  /\ UNCHANGED <<cli, environ, account_cache, folder, files0, search, batch,
                 call, script>>

\* open("w") of script n, then pc moves to next
Open(n, next) ==
  IF folder = "missing" THEN Raise("FileNotFoundError") /\ files' = files
  ELSE IF folder = "file" THEN Raise("NotADirectoryError") /\ files' = files
  ELSE pc' = next /\ err' = err /\ files' = open_w(files, n)

\* The body of a with block: the script is generated (the account code looked
\* up on the way) and written to the open file n.
Write(n, text, next) ==
  LET code == get_account_code(account_cache, environ)
  IN IF code = None
     THEN Raise("MissingAccountCode") /\ files' = files /\ account_cache' = account_cache
     ELSE /\ pc' = next
          /\ err' = err
          /\ account_cache' = code
          /\ files' = write(files, n, text)

\* The text of the colabfold_search runner, lines 261-268
search_text(code) ==
  generate_sbatch_script(search.args, cli.ncpus, 10, <<"0","8",":","0","0",":","0","0">>, Some(<<"n","o","r","m","a","l">>),
                         cli.job_name, 0, code)

\* The text of the colabfold_batch runner, lines 274-282
batch_text(code) ==
  generate_sbatch_script(batch.args, 1, 8, <<"0","4",":","0","0",":","0","0">>, Some(<<"n","o","r","m","a","l">>),
                         cli.job_name, 1, code)

\* main, line 259
OpenSearch ==
  /\ pc = "open_search"
  /\ Open(SearchScript, "write_search")
  /\ UNCHANGED <<cli, environ, account_cache, folder, files0, search, batch,
                 call, script>>

\* main, lines 260-269
WriteSearch ==
  /\ pc = "write_search"
  /\ Write(SearchScript,
           search_text(get_account_code(account_cache, environ)[1]), "open_batch")
  /\ UNCHANGED <<cli, environ, folder, files0, search, batch, call, script>>

\* main, line 272
OpenBatch ==
  /\ pc = "open_batch"
  /\ Open(BatchScript, "write_batch")
  /\ UNCHANGED <<cli, environ, account_cache, folder, files0, search, batch,
                 call, script>>

\* main, lines 273-285
WriteBatch ==
  /\ pc = "write_batch"
  /\ Write(BatchScript,
           batch_text(get_account_code(account_cache, environ)[1]), "done")
  /\ UNCHANGED <<cli, environ, folder, files0, search, batch, call, script>>

\* ------------------------------------------------------------------ direct calls
\* _generate_sbatch_script called on its own, as a test of it would.

\* The characters of the tokens, and the tokens of the longer lists.
TokChars == {"a", " ", "'", "\"", "\\", "\n", "$"}
SampleTokens == {<<>>, <<"a"," ","b">>, <<"i","t","'","s">>, <<"-","-","x","=","1">>, <<"\\">>, <<"$","(","x",")">>}
\* Memory sizes whose per-cpu share can reach 100 GB.
BigMems == {100, 250}
Partitions == {None, Some(<<"n","o","r","m","a","l">>), Some(<<"a","c","c","e","l">>), Some(<<"b","i","g"," ","m","e","m">>)}
Marker == << <<"a","p","p","t","a","i","n","e","r">>, <<"r","u","n">> >>

StringsUpTo(n, alphabet) == UNION {[1..k -> alphabet] : k \in 0..n}

DefaultArgs ==
  generate_colabfold_search_args(<<"i","m","g",".","s","i","f">>, <<"/","c","a","c","h","e">>, <<"q",".","f","a","s","t","a">>, <<"/","o","u","t">>, 4).args

DefaultCall ==
  [args |-> DefaultArgs, num_cpus |-> 4, memory_gbs |-> 10, max_time |-> <<"0","8",":","0","0",":","0","0">>,
   partition |-> Some(<<"n","o","r","m","a","l">>), job_name |-> None, num_gpus |-> 0]

\* The resource parameters vary, the argument list is fixed.
ResourceCalls ==
  {[DefaultCall EXCEPT !.num_cpus = c, !.memory_gbs = m, !.partition = p,
                       !.job_name = j, !.num_gpus = g] :
     c \in 1..MaxNumCpus, m \in (1..MaxMemGbs) \cup BigMems, p \in Partitions, j \in JobNames,
     g \in 0..MaxGpus}

\* One token after the marker, every string of up to MaxTokLen characters.
OneTokenCalls ==
  {[DefaultCall EXCEPT !.args = Marker \o <<t>>] : t \in StringsUpTo(MaxTokLen, TokChars)}

\* Up to MaxToks tokens after the marker.
TokenListCalls ==
  {[DefaultCall EXCEPT !.args = Marker \o ts] : ts \in StringsUpTo(MaxToks, SampleTokens)}

\* An argument list that does not start with the marker.
BadCalls == {[DefaultCall EXCEPT !.args = << <<"r","u","n">>, <<"a","p","p","t","a","i","n","e","r">>, <<"x">> >>]}

CallInit ==
  /\ pc = "call"
  /\ \/ /\ call \in ResourceCalls \cup OneTokenCalls \cup TokenListCalls
        /\ environ = Some(<<"n","n","1","2","3","4","k">>)
     \/ /\ call \in BadCalls \cup {DefaultCall}
        /\ environ \in {None, Some(<<"m","y"," ","p","r","o","j">>)}
  /\ cli = [img |-> <<>>, query |-> <<>>, cache |-> <<>>, out |-> <<>>,
            force |-> FALSE, ncpus |-> 1, job_name |-> None]
  /\ account_cache = None
  /\ folder = "missing"
  /\ files = [n \in {} |-> OldText]
  /\ files0 = files
  /\ search = NoArgs
  /\ batch = NoArgs
  /\ err = "none"
  /\ script = None

\* _generate_sbatch_script(**call), lines 159-220
Call ==
  /\ pc = "call"
  /\ LET code == get_account_code(account_cache, environ)
     IN IF ~ArgsOk(call.args)
        THEN Raise("AssertionError") /\ UNCHANGED <<script, account_cache>>
        ELSE IF code = None
        THEN Raise("MissingAccountCode") /\ UNCHANGED <<script, account_cache>>
        ELSE /\ pc' = "returned"
             /\ err' = err
             /\ account_cache' = code
             /\ script' = Some(generate_sbatch_script(
                                 call.args, call.num_cpus, call.memory_gbs,
                                 call.max_time, call.partition, call.job_name,
                                 call.num_gpus, code[1]))
  /\ UNCHANGED <<cli, environ, folder, files, files0, search, batch, call>>

Init == MainInit \/ CallInit

Next ==
  \/ BuildArgs
  \/ Preflight
  \/ Unlink
  \/ OpenSearch
  \/ WriteSearch
  \/ OpenBatch
  \/ WriteBatch
  \/ Call

Spec == Init /\ [][Next]_vars

\* ------------------------------------------------------------------ reading a script
\* What a reader of a generated script (the shell, sbatch) sees in its text.

\* The positions of the newlines of text, with 0 and Len(text) + 1 as the ends.
Breaks(text) == {0, Len(text) + 1} \cup {i \in 1..Len(text) : text[i] = "\n"}

\* The k-th smallest element of a set of numbers.
Nth(S, k) == CHOOSE x \in S : Cardinality({y \in S : y < x}) = k - 1

\* text.split(newline): the pieces between consecutive newlines.
LinesOf(text) ==
  LET B == Breaks(text)
  IN [k \in 1..(Cardinality(B) - 1) |-> SubSeq(text, Nth(B, k) + 1, Nth(B, k + 1) - 1)]

StartsWith(line, prefix) ==
  Len(line) >= Len(prefix) /\ SubSeq(line, 1, Len(prefix)) = prefix

AfterPrefix(line, prefix) == SubSeq(line, Len(prefix) + 1, Len(line))

SBATCH == <<"#","S","B","A","T","C","H">>

\* The values of the directive lines that start with prefix, in script order.
DirectiveValues(text, prefix) ==
  LET ls == LinesOf(text)
  IN [k \in 1..Len(SelectSeq(ls, LAMBDA l : StartsWith(l, prefix))) |->
        AfterPrefix(SelectSeq(ls, LAMBDA l : StartsWith(l, prefix))[k], prefix)]

\* The positions of text where an empty line starts: two newlines in a row.
Blanks(text) == {i \in 1..(Len(text) - 1) : text[i] = "\n" /\ text[i + 1] = "\n"}

\* The command of a script: the text after its second empty line.
CommandPart(text) == SubSeq(text, Nth(Blanks(text), 2) + 2, Len(text))

\* The words the POSIX shell reads from a command text: quote removal and
\* field splitting (no expansions), as an automaton over the characters.
\* mode: "plain", "single", "double", or "esc" / "desc" after a backslash
\* outside quotes / inside double quotes. cur is the word being read, inword
\* whether there is one, out the words read so far.
ShellStart == [mode |-> "plain", cur |-> <<>>, inword |-> FALSE, out |-> <<>>]

ShellStep(st, c) ==
  IF st.mode = "single" THEN
    IF c = "'" THEN [st EXCEPT !.mode = "plain"]
    ELSE [st EXCEPT !.cur = Append(@, c)]
  ELSE IF st.mode = "double" THEN
    IF c = "\"" THEN [st EXCEPT !.mode = "plain"]
    ELSE IF c = "\\" THEN [st EXCEPT !.mode = "desc"]
    ELSE [st EXCEPT !.cur = Append(@, c)]
  ELSE IF st.mode = "desc" THEN
    IF c = "\n" THEN [st EXCEPT !.mode = "double"]
    ELSE IF c \in {"$", "\"", "\\"} THEN [st EXCEPT !.mode = "double", !.cur = Append(@, c)]
    ELSE [st EXCEPT !.mode = "double", !.cur = @ \o <<"\\", c>>]
  ELSE IF st.mode = "esc" THEN
    IF c = "\n" THEN [st EXCEPT !.mode = "plain"]
    ELSE [st EXCEPT !.mode = "plain", !.cur = Append(@, c), !.inword = TRUE]
  ELSE
    IF c = "\\" THEN [st EXCEPT !.mode = "esc"]
    ELSE IF c = "'" THEN [st EXCEPT !.mode = "single", !.inword = TRUE]
    ELSE IF c = "\"" THEN [st EXCEPT !.mode = "double", !.inword = TRUE]
    ELSE IF c \in {" ", "\n"} THEN
      IF st.inword
      THEN [st EXCEPT !.out = Append(@, st.cur), !.cur = <<>>, !.inword = FALSE]
      ELSE st
    ELSE [st EXCEPT !.cur = Append(@, c), !.inword = TRUE]

\* The automaton run over text[lo..hi] from state st, by halves; the test of
\* left.mode has the left half evaluated before the right half is entered.
RECURSIVE ShellRun(_, _, _, _)
ShellRun(text, lo, hi, st) ==
  IF lo > hi THEN st
  ELSE IF lo = hi THEN ShellStep(st, text[lo])
  ELSE LET mid == (lo + hi) \div 2
           left == ShellRun(text, lo, mid, st)
       IN IF left.mode = "stop" THEN left ELSE ShellRun(text, mid + 1, hi, left)

ShellSplit(text) ==
  LET st == ShellRun(text, 1, Len(text), ShellStart)
  IN IF st.mode = "esc" THEN Append(st.out, Append(st.cur, "\\"))
     ELSE IF st.inword THEN Append(st.out, st.cur)
     ELSE st.out

\* The script a direct call returned.
Returned == pc = "returned"

\* The scripts of a state: the one a direct call returned, and the two a
\* finished run of main left in the output folder.
ScriptsOf ==
  (IF Returned THEN {script[1]} ELSE {}) \cup
  (IF pc = "done" THEN {files[SearchScript], files[BatchScript]} ELSE {})

PartitionPrefix == <<"#","S","B","A","T","C","H"," ","-","-","p","a","r","t","i","t","i","o","n","=">>
GpusPrefix == <<"#","S","B","A","T","C","H"," ","-","-","g","p","u","s">>

\* ------------------------------------------------------------------ claims

\* C5: a call with num_gpus > 0 yields exactly one partition directive, naming
\* accel, whatever partition the caller gave (none included), and the directive
\* --gpus=<num_gpus>; with num_gpus = 0 there is no GPU directive and the one
\* partition directive carries the caller's own partition, not overridden:
\* literally when the name has only safe characters, else in the shell-quoted
\* form that reads back as the name (no directive if the caller gave none).
\* The predict script of main requests accel, the search script normal.
C5_GpuForcesAccel ==
  /\ Returned =>
       LET parts == DirectiveValues(script[1], PartitionPrefix)
           gpus == DirectiveValues(script[1], GpusPrefix)
       IN IF call.num_gpus > 0
          THEN /\ parts = << <<"a","c","c","e","l">> >>
               /\ gpus = << <<"=">> \o IntStr(call.num_gpus) >>
          ELSE /\ gpus = <<>>
               /\ IF call.partition = None THEN parts = <<>>
                  ELSE /\ Len(parts) = 1
                       /\ ShellSplit(parts[1]) = <<call.partition[1]>>
                       /\ ~find_unsafe(call.partition[1]) => parts[1] = call.partition[1]
  /\ pc = "done" =>
       /\ DirectiveValues(files[BatchScript], PartitionPrefix) = << <<"a","c","c","e","l">> >>
       /\ DirectiveValues(files[BatchScript], GpusPrefix) = << <<"=","1">> >>
       /\ DirectiveValues(files[SearchScript], PartitionPrefix) = << <<"n","o","r","m","a","l">> >>
       /\ DirectiveValues(files[SearchScript], GpusPrefix) = <<>>

\* C5 witness: a call with two GPUs and partition normal returned a script
\* whose only partition directive names accel.
C5_Witness ==
  /\ Returned
  /\ call.num_gpus = 2
  /\ call.partition = Some(<<"n","o","r","m","a","l">>)
  /\ DirectiveValues(script[1], PartitionPrefix) = << <<"a","c","c","e","l">> >>

\* C8: the command of a generated script is the two marker tokens unquoted,
\* then each other token shell-quoted, in order, joined by the continuation
\* separator; and the shell reads back from it exactly the argument list.
C8_CommandRoundTrip ==
  Returned =>
    LET cmd == CommandPart(script[1])
        rest == SubSeq(call.args, 3, Len(call.args))
    IN /\ cmd = Join(Continuation,
                     << <<"a","p","p","t","a","i","n","e","r"," ","r","u","n">> >> \o [i \in 1..Len(rest) |-> quote(rest[i])])
       /\ ShellSplit(cmd) = call.args

\* C8 witness: a call whose tokens hold a single quote and a space returned,
\* and the shell reads its argument list back.
C8_Witness ==
  /\ Returned
  /\ Len(call.args) = 5
  /\ call.args[3] = <<"i","t","'","s">>
  /\ call.args[4] = <<"a"," ","b">>
  /\ call.args[5] = <<>>
  /\ ShellSplit(CommandPart(script[1])) = call.args

\* The #SBATCH lines of text are one block of consecutive lines in strictly
\* ascending order.
DirectivesSorted(text) ==
  LET ls == LinesOf(text)
      D == {k \in 1..Len(ls) : StartsWith(ls[k], SBATCH)}
  IN /\ D # {}
     /\ \A i \in D, j \in D : \A k \in i..j : k \in D
     /\ \A k \in D : (k + 1) \in D => StrLess(ls[k], ls[k + 1])

\* C9: in every generated script (of a direct call with any job name,
\* partition and GPU count, and of main) the #SBATCH lines are one contiguous
\* block in ascending lexicographic order, and they are the constructed lines.
C9_DirectivesSorted ==
  /\ \A text \in ScriptsOf : DirectivesSorted(text)
  /\ Returned =>
       LET ls == LinesOf(script[1])
           built == sbatch_directives(call.num_cpus, call.memory_gbs, call.max_time,
                                      call.partition, call.job_name, call.num_gpus,
                                      account_cache[1])
       IN /\ {ls[k] : k \in {k \in 1..Len(ls) : StartsWith(ls[k], SBATCH)}}
               = {built[k] : k \in 1..Len(built)}
          /\ Len(SelectSeq(ls, LAMBDA l : StartsWith(l, SBATCH))) = Len(built)

\* C9 witness: a call with GPUs, no partition and a job name returned; the
\* lines were constructed in another order than the sorted one.
C9_Witness ==
  /\ Returned
  /\ call.num_gpus = 1
  /\ call.partition = None
  /\ call.job_name = Some(<<"m","y"," ","j","o","b">>)
  /\ DirectivesSorted(script[1])
  /\ LET built == sbatch_directives(call.num_cpus, call.memory_gbs, call.max_time,
                                    call.partition, call.job_name, call.num_gpus,
                                    account_cache[1])
     IN StrLess(built[2], built[1]) /\ StrLess(built[7], built[1])

\* A run of main (not a direct call) is past its start.
InMain == pc \notin {"call", "returned"} /\ cli.img # <<>>

\* C1: a run without --force on an output folder that holds an entry goes no
\* further than the pre-flight check, ends in the refusal, and the folder's
\* files are at every moment what they were before the run.
C1_RefuseNonEmpty ==
  (InMain /\ ~cli.force /\ folder = "dir" /\ DOMAIN files0 # {}) =>
    /\ files = files0
    /\ pc \in {"start", "check", "error"}
    /\ pc = "error" => err = "RefuseNonEmpty"

\* C1 witness: a run without --force on a folder holding an old search script
\* was refused and the folder is as before.
C1_Witness ==
  /\ pc = "error"
  /\ err = "RefuseNonEmpty"
  /\ ~cli.force
  /\ SearchScript \in DOMAIN files0
  /\ files = files0

\* The files of fs other than the two scripts.
Others(fs) == [n \in DOMAIN fs \ {SearchScript, BatchScript} |-> fs[n]]

\* C4: a run with --force on an output folder that holds files, with the
\* account code defined, never fails; nothing is written before the removal
\* step, after which neither script is there (whether or not it was before);
\* then the search script is opened and written, then the batch script; at the
\* end each script holds exactly its freshly generated text, and every other
\* file of the folder is unchanged throughout.
C4_ForceOverwrite ==
  (InMain /\ cli.force /\ folder = "dir" /\ DOMAIN files0 # {} /\ environ # None) =>
    LET code == quote(environ[1])
    IN /\ pc # "error"
       /\ Others(files) = Others(files0)
       /\ pc \in {"start", "check", "unlink"} => files = files0
       /\ pc = "open_search" => files = Others(files0)
       /\ pc = "write_search" =>
            files[SearchScript] = <<>> /\ BatchScript \notin DOMAIN files
       /\ pc = "open_batch" =>
            files[SearchScript] = search_text(code) /\ BatchScript \notin DOMAIN files
       /\ pc = "write_batch" =>
            files[SearchScript] = search_text(code) /\ files[BatchScript] = <<>>
       /\ pc = "done" =>
            /\ files[SearchScript] = search_text(code)
            /\ files[BatchScript] = batch_text(code)
            /\ search_text(code) # batch_text(code)

\* C4 witness: a finished run with --force on a folder that held both scripts
\* and another file; the scripts are new, the other file is as before.
C4_Witness ==
  /\ pc = "done"
  /\ cli.force
  /\ DOMAIN files0 = FileNames
  /\ files[SearchScript] # OldText
  /\ files[BatchScript] # OldText
  /\ files[OtherFile] = OldText

\* C2: when the run fails for the missing account code, the files of the
\* output folder are what they were before the run: no script was created,
\* opened, truncated or removed.
C2_ConfigErrorBeforeAnyWrite ==
  (InMain /\ pc = "error" /\ err = "MissingAccountCode") => files = files0

\* The positional input argument of colabfold_batch: the token after it.
batch_input(args) == args[8]

\* C3: in the argument list built for the predict script the positional input
\* argument of colabfold_batch is the search stage's output subfolder,
\* /output/search.
C3_PredictInputIsSearchOutput ==
  (InMain /\ pc # "start") =>
    /\ search.out = <<"/","o","u","t","p","u","t","/","s","e","a","r","c","h">>
    /\ batch.args[7] = <<"c","o","l","a","b","f","o","l","d","_","b","a","t","c","h">>
    /\ batch_input(batch.args) = search.out

\* The value of a decimal numeral d+ or d+.d or d+.dd, in hundredths; -1 for
\* any other text.
DigitSet == {Digits[i] : i \in 1..10}
DigitVal(c) == CHOOSE v \in 0..9 : Digits[v + 1] = c
RECURSIVE NatVal(_)
NatVal(ds) ==
  IF ds = <<>> THEN 0 ELSE 10 * NatVal(SubSeq(ds, 1, Len(ds) - 1)) + DigitVal(ds[Len(ds)])

Hundredths(t) ==
  LET dots == {i \in 1..Len(t) : t[i] = "."}
      dot == IF dots = {} THEN Len(t) + 1 ELSE CHOOSE i \in dots : TRUE
      int == SubSeq(t, 1, dot - 1)
      frac == SubSeq(t, dot + 1, Len(t))
  IN IF \/ Cardinality(dots) > 1
        \/ int = <<>>
        \/ \E i \in 1..Len(t) : t[i] \notin DigitSet \cup {"."}
        \/ (dots # {} /\ Len(frac) \notin {1, 2})
     THEN -1
     ELSE 100 * NatVal(int) + (IF Len(frac) = 1 THEN 10 * NatVal(frac) ELSE NatVal(frac))

MemPrefix == <<"#","S","B","A","T","C","H"," ","-","-","m","e","m","-","p","e","r","-","c","p","u","=">>

\* The memory per cpu a script requests, in hundredths of a GB; -1 if its
\* directive is not one decimal numeral followed by GB.
RequestedMem(text) ==
  LET vs == DirectiveValues(text, MemPrefix)
  IN IF Len(vs) # 1 \/ Len(vs[1]) < 3 \/ SubSeq(vs[1], Len(vs[1]) - 1, Len(vs[1])) # <<"G","B">>
     THEN -1
     ELSE Hundredths(SubSeq(vs[1], 1, Len(vs[1]) - 2))

\* max(1.0, round(memory / cpu_count, 2)) in hundredths of a GB.
ClaimedMem(memory, cpu_count) ==
  LET r == RoundHalfEven(100 * memory, cpu_count)
  IN IF r < 100 THEN 100 ELSE r

\* m is v rounded to two significant digits (v, m in hundredths, v < 99.5 GB).
TwoSignificant(m, v) ==
  IF v < 995
  THEN m % 10 = 0 /\ m - v <= 5 /\ v - m <= 5
  ELSE m % 100 = 0 /\ m - v <= 50 /\ v - m <= 50

\* The memory per cpu of the scripts of a state, with the value claimed for it.
MemCases ==
  (IF Returned
   THEN {[got |-> RequestedMem(script[1]),
          want |-> ClaimedMem(call.memory_gbs, call.num_cpus)]}
   ELSE {}) \cup
  (IF pc = "done"
   THEN {[got |-> RequestedMem(files[SearchScript]), want |-> ClaimedMem(10, cli.ncpus)],
         [got |-> RequestedMem(files[BatchScript]), want |-> ClaimedMem(8, 1)]}
   ELSE {})

\* C6 as stated: the memory per cpu a generated script requests is
\* max(1.0, round(memory / cpu_count, 2)) GB and is at least 1.0 GB, for every
\* direct call and for the search script of main (memory 10, any ncpus).
C6_MemPerCpuExact ==
  \A x \in MemCases : x.got = x.want /\ x.got >= 100

\* C6, amended: the memory per cpu a generated script requests is
\* max(1.0, round(memory / cpu_count, 2)) GB rounded to two significant digits
\* (10 / 3 gives 3.3GB), and is at least 1 GB; from 99.5 GB on the directive
\* is no plain decimal numeral (exponent notation).
C6_MemPerCpuTwoDigits ==
  \A x \in MemCases :
    IF x.want < 9950
    THEN x.got >= 100 /\ TwoSignificant(x.got, x.want)
    ELSE x.got = -1

\* C6 witness: a call with memory 10 on 3 cpus returned a script that
\* requests 3.3 GB per cpu where the unrounded value is 3.33.
C6_Witness ==
  /\ Returned
  /\ call.memory_gbs = 10
  /\ call.num_cpus = 3
  /\ ClaimedMem(10, 3) = 333
  /\ RequestedMem(script[1]) = 330

JobPrefix == <<"#","S","B","A","T","C","H"," ","-","-","j","o","b","-","n","a","m","e","=">>

\* The literals that name the predict stage.
PredictSuffixes == {<<"_","c","o","l","a","b","f","o","l","d","_","b","a","t","c","h">>, <<"_","c","o","l","a","b","f","o","l","d","_","p","r","e","d","i","c","t">>}

\* C7: without a job name both scripts carry a default literal; with a job
\* name the search script is named <name>_colabfold_search and the predict
\* script <name> followed by a literal of the predict stage, each shell-quoted,
\* so that the two scripts of a run are told apart by their job names.
C7_JobNameIdentifiesStage ==
  pc = "done" =>
    LET js == DirectiveValues(files[SearchScript], JobPrefix)
        jb == DirectiveValues(files[BatchScript], JobPrefix)
    IN /\ Len(js) = 1
       /\ Len(jb) = 1
       /\ js[1] # jb[1]
       /\ IF cli.job_name = None
          THEN js[1] = <<"c","o","l","a","b","f","o","l","d","_","s","e","a","r","c","h">>
          ELSE /\ ShellSplit(js[1]) = <<cli.job_name[1] \o <<"_","c","o","l","a","b","f","o","l","d","_","s","e","a","r","c","h">>>>
               /\ \E sfx \in PredictSuffixes :
                    ShellSplit(jb[1]) = <<cli.job_name[1] \o sfx>>

\* C10: the pre-flight check accepts an output folder that does not exist,
\* with or without --force, and the run (account code defined) then ends in
\* success with both scripts in the folder.
C10_MissingFolderAccepted ==
  (InMain /\ folder = "missing") =>
    /\ preflight(cli.force, folder, files) = "none"
    /\ (environ # None /\ pc \in {"done", "error"}) =>
         /\ pc = "done"
         /\ {SearchScript, BatchScript} \subseteq DOMAIN files

====
